---- MODULE Spec2Model ----
(***************************************************************************)
(* Model of langchaindemo.py: a Streamlit script that is re-executed from  *)
(* its first line after every widget interaction.  One execution writes    *)
(* the uploaded file, loads it, embeds and adds it to the Chroma           *)
(* collection persisted in ./chroma_db, and answers the typed question     *)
(* with a "stuff" RetrievalQA chain over the 3 nearest entries.            *)
(*                                                                         *)
(* Library calls are modelled by what they do at the call site:            *)
(*  - UnstructuredFileLoader.load() (default mode "single") returns one    *)
(*    Document holding the whole text of the file;                         *)
(*  - Chroma.from_documents(..., persist_directory=d) opens the collection *)
(*    stored in d (creating it when absent), embeds the documents and ADDS *)
(*    them under fresh ids; persist() writes the collection back to d;     *)
(*  - the retriever returns the min(k, n) entries nearest to the embedded  *)
(*    question (squared L2 distance, nearest first);                       *)
(*  - the "stuff" chain joins the text of all retrieved documents, in      *)
(*    retrieval order, into the prompt given to the chat model;            *)
(*  - an exception that the script does not catch ends the execution and   *)
(*    is displayed by Streamlit; the session keeps its widgets.            *)
(***************************************************************************)
EXTENDS Integers, Sequences, FiniteSets

\* ---------------------------------------------------------------- bounds
\* Largest number of entries the persisted collection may hold before the
\* user stops interacting (each execution that reaches line 36 adds one).
MaxEntries == 4

\* ------------------------------------------------------------ input sets
None == "None"
Docs == {"docA", "docB"}
Keys == {"sk"}
Questions == {"q1", "q2"}

\* search_kwargs={"k": 3}
K == 3

VARIABLES
    api_key,        \* value of the sidebar text_input (line 16)
    uploaded_file,  \* value of the file_uploader (line 20): a document or None
    user_question,  \* value of the question text_input (line 54)
    question_shown, \* the question text_input was rendered by the last execution
    env_key,        \* os.environ["OPENAI_API_KEY"]
    disk_doc,       \* content of uploaded_doc.docx
    chroma_db,      \* collection persisted in ./chroma_db: sequence of entries
    pc,             \* line the current execution is at; "idle" between executions
    documents,      \* documents            (local of the execution)
    vectorstore,    \* vectorstore's collection (local of the execution)
    result,         \* documents retrieved by the chain, with their distances
    prompt,         \* context and question handed to the chat model
    shown,          \* elements displayed by the execution
    did,            \* effects the current execution has performed so far
    trigger,        \* interaction that started the current execution
    indexAtStart,   \* chroma_db when the current execution started
    firstResult     \* per (document, question): texts first retrieved for it

vars == <<api_key, uploaded_file, user_question, question_shown, env_key,
          disk_doc, chroma_db, pc, documents, vectorstore, result, prompt,
          shown, did, trigger, indexAtStart, firstResult>>

widgets == <<api_key, uploaded_file, user_question>>
locals == <<documents, vectorstore, result, prompt>>

\* --------------------------------------------------------- pure functions

\* OpenAIEmbeddings: a deterministic map from text to a vector of fixed length.
Embed(text) ==
    CASE text = "docA" -> <<3, 0>>
      [] text = "docB" -> <<0, 3>>
      [] text = "q1"   -> <<2, 0>>
      [] text = "q2"   -> <<1, 2>>
      [] OTHER         -> <<0, 0>>

\* Chroma's default space: squared L2 distance.
Distance(u, v) == (u[1] - v[1]) * (u[1] - v[1]) + (u[2] - v[2]) * (u[2] - v[2])

Similarity(u, v) == 0 - Distance(u, v)

\* loader.load(): one Document with the text of the file.
Load(bytes) == << [text |-> bytes] >>

\* Nearest with the comparison of distances reversed.
Farthest(index, qv, rem) ==
    CHOOSE i \in rem : \A j \in rem :
        \/ Distance(qv, index[i].vec) > Distance(qv, index[j].vec)
        \/ Distance(qv, index[i].vec) = Distance(qv, index[j].vec) /\ i <= j

\* Position of the entry nearest to qv among the positions in rem,
\* the earliest inserted one among equally near entries.
Nearest(index, qv, rem) ==
    CHOOSE i \in rem : \A j \in rem :
        \/ Distance(qv, index[i].vec) < Distance(qv, index[j].vec)
        \/ Distance(qv, index[i].vec) = Distance(qv, index[j].vec) /\ i <= j

RECURSIVE Pick(_, _, _, _)
Pick(index, qv, rem, k) ==
    IF k <= 0 \/ rem = {} THEN << >>
    ELSE LET i == Nearest(index, qv, rem)
         IN  << [entry |-> index[i], distance |-> Distance(qv, index[i].vec)] >>
             \o Pick(index, qv, rem \ {i}, k - 1)

\* Search that gives up when fewer than k entries are stored.
SearchNotEnough(index, qv, k) ==
    IF k > Len(index) THEN << >> ELSE Pick(index, qv, DOMAIN index, k)

\* retriever.get_relevant_documents: the k nearest entries, nearest first.
Search(index, qv, k) == Pick(index, qv, DOMAIN index, k)

\* Chroma.from_documents: the stored collection extended by one entry per
\* document, each under a fresh id.
RECURSIVE AddDocuments(_, _)
AddDocuments(coll, docs) ==
    IF docs = << >> THEN coll
    ELSE AddDocuments(
            Append(coll, [id |-> Len(coll) + 1,
                          text |-> Head(docs).text,
                          vec |-> Embed(Head(docs).text)]),
            Tail(docs))

\* "stuff" chain: the text of every retrieved document, in retrieval order.
RECURSIVE Stuff(_)
Stuff(res) ==
    IF res = << >> THEN << >>
    ELSE << Head(res).entry.text >> \o Stuff(Tail(res))

\* The branch condition with "or" in place of "and".
ReadyEither(file, key) == file # None \/ key # ""

\* if uploaded_file and api_key:
Ready(file, key) == file # None /\ key # ""

\* ------------------------------------------------------------------ Init
Init ==
    /\ api_key = ""
    /\ uploaded_file = None
    /\ user_question = ""
    /\ question_shown = FALSE
    /\ env_key = ""
    /\ disk_doc = None
    /\ chroma_db = << >>
    /\ pc = "L16"
    /\ documents = << >>
    /\ vectorstore = << >>
    /\ result = << >>
    /\ prompt = [context |-> << >>, question |-> ""]
    /\ shown = {}
    /\ did = {}
    /\ trigger = "open"
    /\ indexAtStart = << >>
    /\ firstResult = [d \in Docs, q \in Questions |-> None]

\* ------------------------------------------------- widget interactions
\* Every interaction re-executes the script from line 16 with fresh locals.
Rerun(why) ==
    /\ pc = "idle"
    /\ Len(chroma_db) < MaxEntries
    /\ pc' = "L16"
    /\ documents' = << >>
    /\ vectorstore' = << >>
    /\ result' = << >>
    /\ prompt' = [context |-> << >>, question |-> ""]
    /\ shown' = {}
    /\ did' = {}
    /\ trigger' = why
    /\ indexAtStart' = chroma_db
    /\ UNCHANGED <<question_shown, env_key, disk_doc, chroma_db, firstResult>>

EnterApiKey ==
    /\ \E k \in Keys \cup {""} :
          /\ k # api_key
          /\ api_key' = k
    /\ Rerun("key")
    /\ UNCHANGED <<uploaded_file, user_question>>

UploadFile ==
    /\ \E f \in Docs \cup {None} :
          /\ f # uploaded_file
          /\ uploaded_file' = f
    /\ Rerun("file")
    /\ UNCHANGED <<api_key, user_question>>

TypeQuestion ==
    /\ question_shown
    /\ \E q \in Questions \cup {""} :
          /\ q # user_question
          /\ user_question' = q
    /\ Rerun("question")
    /\ UNCHANGED <<api_key, uploaded_file>>

\* ------------------------------------------------- steps of one execution
\* lines 16-18
ReadApiKey ==
    /\ pc = "L16"
    /\ env_key' = IF api_key # "" THEN api_key ELSE env_key
    /\ pc' = "L22"
    /\ UNCHANGED <<widgets, question_shown, disk_doc, chroma_db, locals,
                   shown, did, trigger, indexAtStart, firstResult>>

\* line 22, branch taken
EnterPipeline ==
    /\ pc = "L22"
    /\ Ready(uploaded_file, api_key)
    /\ pc' = "L24"
    /\ UNCHANGED <<widgets, question_shown, env_key, disk_doc, chroma_db,
                   locals, shown, did, trigger, indexAtStart, firstResult>>

\* lines 61-62
ShowInfo ==
    /\ pc = "L22"
    /\ ~Ready(uploaded_file, api_key)
    /\ shown' = shown \cup {"info"}
    /\ question_shown' = FALSE
    /\ user_question' = ""
    /\ pc' = "idle"
    /\ UNCHANGED <<api_key, uploaded_file, env_key, disk_doc, chroma_db,
                   locals, did, trigger, indexAtStart, firstResult>>

\* lines 24-25
WriteFile ==
    /\ pc = "L24"
    /\ disk_doc' = uploaded_file
    /\ did' = did \cup {"write"}
    /\ pc' = "L27"
    /\ UNCHANGED <<widgets, question_shown, env_key, chroma_db, locals,
                   shown, trigger, indexAtStart, firstResult>>

\* lines 27-29
LoadDocument ==
    /\ pc = "L27"
    /\ documents' = Load(disk_doc)
    /\ shown' = shown \cup {"success"}
    /\ did' = did \cup {"load"}
    /\ pc' = "L36"
    /\ UNCHANGED <<widgets, question_shown, env_key, disk_doc, chroma_db,
                   vectorstore, result, prompt, trigger, indexAtStart,
                   firstResult>>

\* lines 32-36
BuildIndex ==
    /\ pc = "L36"
    /\ vectorstore' = AddDocuments(chroma_db, documents)
    /\ did' = did \cup {"embed", "build"}
    /\ pc' = "L37"
    /\ UNCHANGED <<widgets, question_shown, env_key, disk_doc, chroma_db,
                   documents, result, prompt, shown, trigger, indexAtStart,
                   firstResult>>

\* line 36, the embedding service raises: nothing is added
BuildIndexFails ==
    /\ pc = "L36"
    /\ shown' = shown \cup {"exception"}
    /\ pc' = "idle"
    /\ UNCHANGED <<widgets, question_shown, env_key, disk_doc, chroma_db,
                   locals, did, trigger, indexAtStart, firstResult>>

\* line 37
Persist ==
    /\ pc = "L37"
    /\ chroma_db' = vectorstore
    /\ did' = did \cup {"persist"}
    /\ pc' = "L54"
    /\ UNCHANGED <<widgets, question_shown, env_key, disk_doc, locals,
                   shown, trigger, indexAtStart, firstResult>>

\* lines 40-56, no question typed
NoQuestion ==
    /\ pc = "L54"
    /\ user_question = ""
    /\ question_shown' = TRUE
    /\ pc' = "idle"
    /\ UNCHANGED <<widgets, env_key, disk_doc, chroma_db, locals, shown,
                   did, trigger, indexAtStart, firstResult>>

\* lines 40-56, a question is typed
HaveQuestion ==
    /\ pc = "L54"
    /\ user_question # ""
    /\ question_shown' = TRUE
    /\ pc' = "L58"
    /\ UNCHANGED <<widgets, env_key, disk_doc, chroma_db, locals, shown,
                   did, trigger, indexAtStart, firstResult>>

\* lines 57-58: embed the question, retrieve, stuff, generate
RunChain ==
    /\ pc = "L58"
    /\ LET res == Search(vectorstore, Embed(user_question), K)
       IN  /\ result' = res
           /\ prompt' = [context |-> Stuff(res), question |-> user_question]
           /\ firstResult' =
                IF firstResult[uploaded_file, user_question] = None
                THEN [firstResult EXCEPT ![uploaded_file, user_question] = Stuff(res)]
                ELSE firstResult
    /\ did' = did \cup {"search", "generate"}
    /\ pc' = "L59"
    /\ UNCHANGED <<widgets, question_shown, env_key, disk_doc, chroma_db,
                   documents, vectorstore, shown, trigger, indexAtStart>>

\* line 58, the embedding or the generation service raises
RunChainFails ==
    /\ pc = "L58"
    /\ shown' = shown \cup {"exception"}
    /\ pc' = "idle"
    /\ UNCHANGED <<widgets, question_shown, env_key, disk_doc, chroma_db,
                   locals, did, trigger, indexAtStart, firstResult>>

\* line 59
ShowAnswer ==
    /\ pc = "L59"
    /\ shown' = shown \cup {"answer"}
    /\ pc' = "idle"
    /\ UNCHANGED <<widgets, question_shown, env_key, disk_doc, chroma_db,
                   locals, did, trigger, indexAtStart, firstResult>>

Next ==
    \/ EnterApiKey
    \/ UploadFile
    \/ TypeQuestion
    \/ ReadApiKey
    \/ EnterPipeline
    \/ ShowInfo
    \/ WriteFile
    \/ LoadDocument
    \/ BuildIndex
    \/ BuildIndexFails
    \/ Persist
    \/ NoQuestion
    \/ HaveQuestion
    \/ RunChain
    \/ RunChainFails
    \/ ShowAnswer

Spec == Init /\ [][Next]_vars

\* ------------------------------------------------------------ properties
Searched == "search" \in did

QueryVector == Embed(prompt.question)

Ids(index) == {index[i].id : i \in DOMAIN index}

C2_SameBuildSameResult ==
    ( /\ Searched
      /\ \A i \in DOMAIN vectorstore : vectorstore[i].text = uploaded_file )
    => Stuff(result) = firstResult[uploaded_file, user_question]

\* C3: an execution started by typing a question leaves the entries of the
\* persisted index as they were when the question was typed.
C3_IndexReadOnly ==
    trigger = "question" => chroma_db = indexAtStart

\* C4: no question is answered from an index that holds entries of a
\* document other than the one currently uploaded.
C4_NoMixedIndex ==
    Searched => \A i \in DOMAIN vectorstore : vectorstore[i].text = disk_doc

\* C5: when the embedding or generation service fails while a question is
\* being answered, the index is as it was when the question was typed.
C5_FailureLeavesIndex ==
    ( /\ trigger = "question"
      /\ "exception" \in shown
      /\ "persist" \in did )
    => chroma_db = indexAtStart

Pipeline == {"write", "load", "embed", "build", "persist"}

\* C10: an execution writes, loads, embeds, indexes and persists only with
\* both a file and a non-empty key; it calls the chain only then, only for
\* a non-empty question and only after its own build and persist; without
\* the file or the key it writes nothing, builds nothing, generates nothing
\* and shows only the informational prompt.
C10_GuardedPipeline ==
    /\ did \cap Pipeline # {} => (uploaded_file # None /\ api_key # "")
    /\ "generate" \in did =>
          /\ uploaded_file # None /\ api_key # ""
          /\ user_question # ""
          /\ Pipeline \subseteq did
          /\ chroma_db = vectorstore
          /\ Len(chroma_db) = Len(indexAtStart) + Len(documents)
    /\ (pc = "L58" \/ pc = "L59") => Pipeline \subseteq did
    /\ (pc = "idle" /\ (uploaded_file = None \/ api_key = "")) =>
          /\ did = {}
          /\ shown = {"info"}
          /\ chroma_db = indexAtStart

\* An execution with a file, a key and a question that built, persisted and
\* then displayed an answer.
C10_Witness ==
    /\ pc = "idle"
    /\ "generate" \in did
    /\ "answer" \in shown
    /\ chroma_db # indexAtStart

TypeOK ==
    /\ api_key \in Keys \cup {""}
    /\ uploaded_file \in Docs \cup {None}
    /\ user_question \in Questions \cup {""}
    /\ pc \in {"idle", "L16", "L22", "L24", "L27", "L36", "L37", "L54", "L58", "L59"}
    /\ Len(chroma_db) <= MaxEntries
====
